---- MODULE Spec2Model ----
(***************************************************************************)
(* Model of pandasai.agent.base.Agent: the generate -> execute -> retry    *)
(* cycle of one agent (chat / follow_up / _process_query and the two retry *)
(* loops) and the SQL router _execute_sql_query run by sessions that share *)
(* the in-process engine.                                                  *)
(***************************************************************************)
EXTENDS Integers, Sequences, FiniteSets, TLC

\* ------------------------------------------------------------------ bounds
MaxRetriesBound == 2
MaxTurns == 2
MaxMessages == 1
MaxDfs == 2
MaxCalls == 2
MaxPeerDfs == 0
MaxSharedDfs == 1
MaxSources == 2
MaxQueryLen == 2
MaxImports == 2
MaxLiveTurns == 1

\* ------------------------------------------------------------- value sets
Queries == {"q1", "q2"}

\* exceptions.py kinds that the collaborators of the agent raise
ValidationKinds == {"BadImport", "MaliciousQuery"}
ConnectivityKinds == {"PandasAIApiCallError"}
ExecKinds == {"CodeExecutionError", "PandasAIApiCallError"}
ParseKinds == {"InvalidLLMOutputType"}

\* program texts and exceptions are numbered within a turn, from 1; a text
\* left in last_code_generated by an earlier turn is StaleCode
StaleCode == -1

NoExc == [kind |-> "none", id |-> 0]
NoPrompt == [type |-> "none", code |-> 0, trace |-> NoExc]
NoOutcome == [type |-> "none", exc |-> NoExc, code |-> 0]

VARIABLES
    llm,                 \* config.llm is set
    max_retries,         \* config.max_retries
    pc,                  \* position of the running turn
    turn_kind,           \* "chat" or "follow_up"
    query,               \* the query of the running turn
    turns,               \* turns started so far
    memory,              \* _state.memory, oldest first
    mem_at_start,        \* memory when chat/follow_up was called
    last_code_generated, \* _state.last_code_generated (0 = None)
    last_prompt_used,    \* _state.last_prompt_used
    pq_code,             \* local `code` of _process_query (0 = unbound)
    code,                \* local `code` of execute_with_retries
    exception,           \* local `exception` of generate_code_with_retries
    handled,             \* exception being handled (what format_exc prints)
    g_attempts,          \* `attempts` of generate_code_with_retries
    e_attempts,          \* `attempts` of execute_with_retries
    requests,            \* number of prompts handed to the code generator this turn
    gen_count,           \* generation attempts of generate_code_with_retries
    exec_count,          \* execute_code calls of execute_with_retries
    e_regen,             \* regenerations requested by execute_with_retries
    last_failed,         \* code and exception of the last failed execution
    last_sent,           \* last prompt handed to the code generator
    returned,            \* code returned by the last generation that succeeded
    executed,            \* code the last execute_code call ran
    nexc,                \* exceptions raised so far in the turn
    ncode,               \* program texts produced so far in the turn
    outcome,             \* what the turn gave back to the caller
    dfs,                 \* _state.dfs of each session
    sql_pc,              \* position of each session in _execute_sql_query
    sql_query,           \* tables the query of the running call references
    df_idx,              \* position of the for loop over _state.dfs
    table_mapping,       \* local table_mapping of the running call
    df_executor,         \* local df_executor (0 = None, else index in dfs)
    final_query,         \* local final_query: the table references after rewriting
    engine,              \* tables registered in the in-process engine
    registered,          \* registrations made by the running call
    runs,                \* executors the running call ran the query on
    sql_out,             \* how the last call ended
    calls,               \* calls of _execute_sql_query so far
    fn,                  \* the operation applied to the input drawn
    fn_pc,               \* "idle", "start" (input drawn) or "done"
    sources,             \* Agent.__init__: the sources of the datasets given
    agent_out,           \* Agent.__init__: how it ended, and whether _state was set
    rw_in,               \* _replace_table_names: the query and the mapping
    rw_out,              \* _replace_table_names: raised, or the query returned
    imp_in,              \* _check_imports: the allow-list and the import node
    imp_out,             \* _check_imports: the module rejected, and the node kept
    req_in,              \* make_request: what requests.request does
    req_out              \* make_request: returned, or the error raised

agentVars == <<llm, max_retries, pc, turn_kind, query, turns, memory,
               mem_at_start, last_code_generated, last_prompt_used, pq_code,
               code, exception, handled, g_attempts, e_attempts, requests,
               gen_count, exec_count, e_regen, last_failed, last_sent,
               returned, executed, nexc, ncode, outcome>>

sqlVars == <<dfs, sql_pc, sql_query, df_idx, table_mapping, df_executor,
             final_query, engine, registered, runs, sql_out, calls>>

fnVars == <<fn, fn_pc, sources, agent_out, rw_in, rw_out, imp_in, imp_out,
           req_in, req_out>>

vars == <<agentVars, sqlVars, fnVars>>

\* ------------------------------------------------------------ datasets
Sessions == {"s1", "s2"}
DfNames == {"sales", "customers"}
\* the tables a query can reference; a session need not have a dataset of
\* each name
TableNames == DfNames

\* a dataset: its schema name and whether it has a query_builder attribute
Datasets == [name : DfNames, has_qb : BOOLEAN]

DfLists == UNION {[1..n -> Datasets] : n \in 0..MaxDfs}

\* a table reference of a query: a bare table name, or the table expression
\* of dataset number df of session `session`
TableRef(n) == [name |-> n, session |-> "", df |-> 0]

_get_table_expression(s, i) ==
    [name |-> dfs[s][i].name, session |-> s, df |-> i]

EmptyMapping == [n \in {} |-> TableRef(n)]

SqlIdle ==
    /\ sql_pc = [s \in Sessions |-> "idle"]
    /\ sql_query = [s \in Sessions |-> {}]
    /\ df_idx = [s \in Sessions |-> 0]
    /\ table_mapping = [s \in Sessions |-> EmptyMapping]
    /\ df_executor = [s \in Sessions |-> 0]
    /\ final_query = [s \in Sessions |-> {}]
    /\ engine = [n \in {} |-> <<>>]
    /\ registered = [s \in Sessions |-> <<>>]
    /\ runs = [s \in Sessions |-> <<>>]
    /\ sql_out = [s \in Sessions |-> "none"]
    /\ calls = 0

\* ------------------------------------------------------------ sources
LOCAL_SOURCE_TYPES == {"csv", "parquet"}
REMOTE_SOURCE_TYPES == {"mysql", "postgres"}

\* SQLConnectionConfig values: one connection and the five that differ from
\* it in one field
Connection0 ==
    [host |-> "h1", port |-> 1, database |-> "d1", user |-> "u1",
     password |-> "p1"]

Connections ==
    {Connection0,
     [Connection0 EXCEPT !.host = "h2"],
     [Connection0 EXCEPT !.port = 2],
     [Connection0 EXCEPT !.database = "d2"],
     [Connection0 EXCEPT !.user = "u2"],
     [Connection0 EXCEPT !.password = "p2"]}

\* connection = None of a local source
NoConnection ==
    [host |-> "", port |-> 0, database |-> "", user |-> "", password |-> ""]

\* Source values that pass validate_type_and_fields
Sources ==
    [type : LOCAL_SOURCE_TYPES, connection : {NoConnection}]
       \cup [type : REMOTE_SOURCE_TYPES, connection : Connections]

SourceLists == UNION {[1..n -> Sources] : n \in 1..MaxSources}

\* ------------------------------------------------ inputs of the validator
RwTables == {"my_table", "sales"}
RwExpressions == RwTables \cup {"db.my_table"}
RwQueries == UNION {[1..n -> RwTables] : n \in 0..MaxQueryLen}
RwMappings == UNION {[D -> RwExpressions] : D \in SUBSET RwTables}

Modules == {"pandas", "numpy", "os"}
ImportNodes == UNION {[1..n -> Modules] : n \in 1..MaxImports}

NoRewrite == [raised |-> FALSE, query |-> <<>>]
NoImportCheck == [raised |-> "none", node |-> <<>>]

\* ------------------------------------------------ responses of the API
\* line 83: the status codes make_request takes as success
OkStatuses == {200, 201}

Statuses == OkStatuses \cup {400, 404, 500}

BodyKeys == {"message", "detail", "data"}

\* requests.request raises a RequestException
TransportError ==
    [transport |-> "RequestException", status |-> 0, decodable |-> FALSE,
     keys |-> {}]

\* requests.request returns a response: its status code, whether its body
\* is JSON, and the keys of the decoded body
Responses ==
    [transport : {"response"}, status : Statuses, decodable : {TRUE},
     keys : SUBSET BodyKeys]
       \cup [transport : {"response"}, status : Statuses,
             decodable : {FALSE}, keys : {{}}]

NoRequest == [transport |-> "none", status |-> 0, decodable |-> FALSE,
              keys |-> {}]
NoReply == [kind |-> "none", value |-> "none"]

FnIdleExcept(f) ==
    /\ f # "Agent" => sources = <<>>
    /\ agent_out = [result |-> "none", state_initialized |-> FALSE]
    /\ f # "_replace_table_names" =>
          rw_in = [query |-> <<>>, mapping |-> [n \in {} |-> ""]]
    /\ rw_out = NoRewrite
    /\ f # "_check_imports" => imp_in = [allow |-> {}, node |-> <<>>]
    /\ imp_out = NoImportCheck
    /\ f # "make_request" => req_in = NoRequest
    /\ req_out = NoReply

FnIdle ==
    /\ fn = "none"
    /\ fn_pc = "idle"
    /\ FnIdleExcept("none")

\* ------------------------------------------------------------ memory
MemoryAdd(mem, message) == Append(mem, message)

\* what _regenerate_code_after_error does to the message history: nothing,
\* it builds a correction prompt and calls the code generator
RetryMemory_adds(mem, q) == MemoryAdd(mem, q)

RetryMemory(mem, q) == mem

MemoryClear(mem) == <<>>

clear_memory(mem) == MemoryClear(mem)

start_new_conversation_keeps(mem) == mem

start_new_conversation(mem) == clear_memory(mem)

\* ------------------------------------------------------------ prompts
get_chat_prompt_for_sql == [type |-> "chat", code |-> 0, trace |-> NoExc]

get_correct_output_type_error_prompt(c, error_trace) ==
    [type |-> "correct_output_type", code |-> c, trace |-> error_trace]

get_correct_error_prompt_for_sql(c, error_trace) ==
    [type |-> "correct_error", code |-> c, trace |-> error_trace]

RegenPrompt_generic(c, error, cur) == get_correct_error_prompt_for_sql(c, cur)

\* the prompt _regenerate_code_after_error builds for (code, error) while the
\* exception `cur` is being handled
RegenPrompt(c, error, cur) ==
    IF error.kind = "InvalidLLMOutputType"
    THEN get_correct_output_type_error_prompt(c, cur)
    ELSE get_correct_error_prompt_for_sql(c, cur)

\* ------------------------------------------------------------ _process_query
\* an exception leaves the try block of _process_query
HandleException(e) ==
    IF e.kind = "CodeExecutionError"
    THEN IF pq_code = 0
         THEN [type |-> "raised",
               exc |-> [kind |-> "UnboundLocalError", id |-> nexc + 2],
               code |-> 0]
         ELSE [type |-> "error_response", exc |-> e, code |-> pq_code]
    ELSE [type |-> "raised", exc |-> e, code |-> 0]

\* the turn ends and gives `o` back to the caller of chat / follow_up
Finish(o) ==
    /\ pc' = "done"
    /\ outcome' = o

\* what every turn resets when _process_query is entered
EnterProcessQuery(q) ==
    /\ query' = q
    /\ pq_code' = 0
    /\ code' = 0
    /\ exception' = NoExc
    /\ handled' = NoExc
    /\ g_attempts' = 0
    /\ e_attempts' = 0
    /\ requests' = 0
    /\ gen_count' = 0
    /\ exec_count' = 0
    /\ e_regen' = 0
    /\ last_failed' = [code |-> 0, exc |-> NoExc]
    /\ last_sent' = NoPrompt
    /\ returned' = 0
    /\ executed' = 0
    /\ turns' = turns + 1
    /\ mem_at_start' = memory
    /\ ncode' = 0
    /\ last_code_generated' =
          IF last_code_generated = 0 THEN 0 ELSE StaleCode

\* ------------------------------------------------------------ chat, follow_up
chat(q) ==
    /\ pc \in {"idle", "done"}
    /\ turns < MaxTurns
    /\ turn_kind' = "chat"
    /\ EnterProcessQuery(q)
    /\ IF ~llm
       THEN /\ Finish([type |-> "raised",
                       exc |-> [kind |-> "ValueError", id |-> 1],
                       code |-> 0])
            /\ memory' = memory
       ELSE /\ memory' = start_new_conversation(memory)
            /\ pc' = "generate_code"
            /\ outcome' = NoOutcome
    /\ nexc' = IF llm THEN 0 ELSE 1
    /\ UNCHANGED <<sqlVars, fnVars>>
    /\ UNCHANGED <<llm, max_retries, last_prompt_used>>

follow_up(q) ==
    /\ pc \in {"idle", "done"}
    /\ turns < MaxTurns
    /\ turn_kind' = "follow_up"
    /\ EnterProcessQuery(q)
    /\ IF ~llm
       THEN Finish([type |-> "raised",
                    exc |-> [kind |-> "AttributeError", id |-> 1],
                    code |-> 0])
       ELSE /\ pc' = "generate_code"
            /\ outcome' = NoOutcome
    /\ memory' = memory
    /\ nexc' = IF llm THEN 0 ELSE 1
    /\ UNCHANGED <<sqlVars, fnVars>>
    /\ UNCHANGED <<llm, max_retries, last_prompt_used>>

add_message(m) ==
    /\ pc \in {"idle", "done"}
    /\ Len(SelectSeq(memory, LAMBDA x : x = "note")) < MaxMessages
    /\ memory' = MemoryAdd(memory, m)
    /\ UNCHANGED <<returned, executed>>
    /\ UNCHANGED <<sqlVars, fnVars>>
    /\ UNCHANGED <<llm, max_retries, pc, turn_kind, query, turns,
                   mem_at_start, last_code_generated, last_prompt_used,
                   pq_code, code, exception, handled, g_attempts, e_attempts,
                   requests, gen_count, exec_count, e_regen, last_failed,
                   last_sent, nexc, ncode, outcome>>

\* ------------------------------------------------------------ generate_code
\* generate_code whose code generator returns a validated program; the
\* program is handed to execute_with_retries
GenerateCodeOk ==
    /\ pc = "generate_code"
    /\ memory' = MemoryAdd(memory, query)
    /\ requests' = requests + 1
    /\ last_sent' = get_chat_prompt_for_sql
    /\ gen_count' = gen_count + 1
    /\ ncode' = ncode + 1
    /\ last_code_generated' = ncode + 1
    /\ last_prompt_used' = get_chat_prompt_for_sql
    /\ pq_code' = ncode + 1
    /\ code' = ncode + 1
    /\ e_attempts' = 0
    /\ pc' = "execute_code"
    /\ returned' = ncode + 1
    /\ executed' = executed
    /\ UNCHANGED <<sqlVars, fnVars>>
    /\ UNCHANGED <<llm, max_retries, turn_kind, query, turns, mem_at_start,
                   exception, handled, g_attempts, exec_count, e_regen,
                   last_failed, nexc, outcome>>

\* generate_code whose code generator raises: the model call fails, or the
\* returned program is rejected by validation
GenerateCodeFail(k) ==
    /\ pc = "generate_code"
    /\ memory' = MemoryAdd(memory, query)
    /\ requests' = requests + 1
    /\ last_sent' = get_chat_prompt_for_sql
    /\ gen_count' = gen_count + 1
    /\ ncode' = IF k \in ValidationKinds THEN ncode + 1 ELSE ncode
    /\ last_code_generated' =
          IF k \in ValidationKinds THEN ncode + 1 ELSE last_code_generated
    /\ nexc' = nexc + 1
    /\ exception' = [kind |-> k, id |-> nexc + 1]
    /\ handled' = [kind |-> k, id |-> nexc + 1]
    /\ g_attempts' = 0
    /\ pc' = "regenerate_code"
    /\ UNCHANGED <<returned, executed>>
    /\ UNCHANGED <<sqlVars, fnVars>>
    /\ UNCHANGED <<llm, max_retries, turn_kind, query, turns, mem_at_start,
                   last_prompt_used, pq_code, code, e_attempts, exec_count,
                   e_regen, last_failed, outcome>>

\* ------------------------------------------------- generate_code_with_retries
\* line 176: `if attempts > max_retries`
GenBudgetExceeded_late(a) == a > max_retries + 1

GenBudgetExceeded(a) == a > max_retries

\* lines 170-172: _regenerate_code_after_error(last_code_generated, exception)
\* is called inside the outer except clause, so format_exc prints the
\* exception that clause is handling
GenRetryPrompt == RegenPrompt(last_code_generated, exception, handled)

RegenerateCodeOk ==
    /\ pc = "regenerate_code"
    /\ memory' = RetryMemory(memory, query)
    /\ g_attempts <= max_retries
    /\ LET prompt == GenRetryPrompt
       IN /\ requests' = requests + 1
          /\ last_sent' = prompt
    /\ gen_count' = gen_count + 1
    /\ ncode' = ncode + 1
    /\ last_code_generated' = ncode + 1
    /\ pq_code' = ncode + 1
    /\ code' = ncode + 1
    /\ e_attempts' = 0
    /\ handled' = NoExc
    /\ exception' = NoExc
    /\ g_attempts' = 0
    /\ pc' = "execute_code"
    /\ returned' = ncode + 1
    /\ executed' = executed
    /\ UNCHANGED <<sqlVars, fnVars>>
    /\ UNCHANGED <<llm, max_retries, turn_kind, query, turns, mem_at_start,
                   last_prompt_used, exec_count, e_regen,
                   last_failed, nexc, outcome>>

RegenerateCodeFail(k) ==
    /\ pc = "regenerate_code"
    /\ memory' = RetryMemory(memory, query)
    /\ g_attempts <= max_retries
    /\ LET prompt == GenRetryPrompt
       IN /\ requests' = requests + 1
          /\ last_sent' = prompt
    /\ gen_count' = gen_count + 1
    /\ ncode' = IF k \in ValidationKinds THEN ncode + 1 ELSE ncode
    /\ last_code_generated' =
          IF k \in ValidationKinds THEN ncode + 1 ELSE last_code_generated
    /\ nexc' = nexc + 1
    /\ exception' = [kind |-> k, id |-> nexc + 1]
    /\ g_attempts' = g_attempts + 1
    /\ IF GenBudgetExceeded(g_attempts + 1)
       THEN /\ Finish(HandleException([kind |-> k, id |-> nexc + 1]))
            /\ handled' = [kind |-> k, id |-> nexc + 1]
       ELSE /\ pc' = "regenerate_code"
            /\ handled' = handled
            /\ outcome' = outcome
    /\ UNCHANGED <<returned, executed>>
    /\ UNCHANGED <<sqlVars, fnVars>>
    /\ UNCHANGED <<llm, max_retries, turn_kind, query, turns, mem_at_start,
                   last_prompt_used, pq_code, code, e_attempts,
                   exec_count, e_regen, last_failed>>

\* ------------------------------------------------------- execute_with_retries
\* line 197: `if attempts > max_retries`
ExecBudgetExceeded_late(a) == a > max_retries + 1

ExecBudgetExceeded(a) == a > max_retries

\* line 203: the arguments of _regenerate_code_after_error(code, e), called
\* while e is being handled
ExecRetryPrompt_first == RegenPrompt(pq_code, handled, handled)

ExecRetryPrompt == RegenPrompt(code, handled, handled)

\* the except clause of execute_with_retries, entered with exception e
ExceptClause_uncounted(e) ==
    /\ nexc' = e.id
    /\ e_attempts' = e_attempts
    /\ last_failed' = [code |-> code, exc |-> e]
    /\ handled' = e
    /\ IF ExecBudgetExceeded(e_attempts)
       THEN Finish(HandleException(e))
       ELSE /\ pc' = "regenerate_after_error"
            /\ outcome' = outcome

ExceptClause(e) ==
    /\ nexc' = e.id
    /\ e_attempts' = e_attempts + 1
    /\ last_failed' = [code |-> code, exc |-> e]
    /\ handled' = e
    /\ IF ExecBudgetExceeded(e_attempts + 1)
       THEN Finish(HandleException(e))
       ELSE /\ pc' = "regenerate_after_error"
            /\ outcome' = outcome

ExecuteCodeOk ==
    /\ pc = "execute_code"
    /\ e_attempts <= max_retries
    /\ exec_count' = exec_count + 1
    /\ pc' = "parse"
    /\ executed' = code
    /\ returned' = returned
    /\ UNCHANGED <<sqlVars, fnVars>>
    /\ UNCHANGED <<llm, max_retries, turn_kind, query, turns, memory,
                   mem_at_start, last_code_generated, last_prompt_used,
                   pq_code, code, exception, handled, g_attempts, e_attempts,
                   requests, gen_count, e_regen, last_failed, last_sent, nexc,
                   ncode, outcome>>

ExecuteCodeFail(k) ==
    /\ pc = "execute_code"
    /\ e_attempts <= max_retries
    /\ exec_count' = exec_count + 1
    /\ ExceptClause([kind |-> k, id |-> nexc + 1])
    /\ executed' = code
    /\ returned' = returned
    /\ UNCHANGED <<sqlVars, fnVars>>
    /\ UNCHANGED <<llm, max_retries, turn_kind, query, turns, memory,
                   mem_at_start, last_code_generated, last_prompt_used,
                   pq_code, code, exception, g_attempts, requests, gen_count,
                   e_regen, last_sent, ncode>>

ParseOk ==
    /\ pc = "parse"
    /\ Finish([type |-> "result", exc |-> NoExc, code |-> code])
    /\ UNCHANGED <<returned, executed>>
    /\ UNCHANGED <<sqlVars, fnVars>>
    /\ UNCHANGED <<llm, max_retries, turn_kind, query, turns, memory,
                   mem_at_start, last_code_generated, last_prompt_used,
                   pq_code, code, exception, handled, g_attempts, e_attempts,
                   requests, gen_count, exec_count, e_regen, last_failed,
                   last_sent, nexc, ncode>>

ParseFail(k) ==
    /\ pc = "parse"
    /\ ExceptClause([kind |-> k, id |-> nexc + 1])
    /\ UNCHANGED <<returned, executed>>
    /\ UNCHANGED <<sqlVars, fnVars>>
    /\ UNCHANGED <<llm, max_retries, turn_kind, query, turns, memory,
                   mem_at_start, last_code_generated, last_prompt_used,
                   pq_code, code, exception, g_attempts, requests, gen_count,
                   exec_count, e_regen, last_sent, ncode>>

\* line 203: `code = ...` rebinds the local to the regenerated program
RetryCode_keeps(new) == code

RetryCode(new) == new

\* line 203, the regeneration returns: the loop goes on with the new code
RegenerateAfterErrorOk ==
    /\ pc = "regenerate_after_error"
    /\ memory' = RetryMemory(memory, query)
    /\ LET prompt == ExecRetryPrompt
       IN /\ requests' = requests + 1
          /\ last_sent' = prompt
    /\ e_regen' = e_regen + 1
    /\ ncode' = ncode + 1
    /\ last_code_generated' = ncode + 1
    /\ code' = RetryCode(ncode + 1)
    /\ handled' = NoExc
    /\ pc' = "execute_code"
    /\ returned' = ncode + 1
    /\ executed' = executed
    /\ UNCHANGED <<sqlVars, fnVars>>
    /\ UNCHANGED <<llm, max_retries, turn_kind, query, turns, mem_at_start,
                   last_prompt_used, pq_code, exception,
                   g_attempts, e_attempts, gen_count, exec_count, last_failed,
                   nexc, outcome>>

\* line 203, the regeneration raises inside the except clause: nothing in
\* execute_with_retries catches it
RegenerateAfterErrorFail(k) ==
    /\ pc = "regenerate_after_error"
    /\ memory' = RetryMemory(memory, query)
    /\ LET prompt == ExecRetryPrompt
       IN /\ requests' = requests + 1
          /\ last_sent' = prompt
    /\ e_regen' = e_regen + 1
    /\ ncode' = IF k \in ValidationKinds THEN ncode + 1 ELSE ncode
    /\ last_code_generated' =
          IF k \in ValidationKinds THEN ncode + 1 ELSE last_code_generated
    /\ nexc' = nexc + 1
    /\ handled' = [kind |-> k, id |-> nexc + 1]
    /\ Finish(HandleException([kind |-> k, id |-> nexc + 1]))
    /\ UNCHANGED <<returned, executed>>
    /\ UNCHANGED <<sqlVars, fnVars>>
    /\ UNCHANGED <<llm, max_retries, turn_kind, query, turns, mem_at_start,
                   last_prompt_used, pq_code, code, exception,
                   g_attempts, e_attempts, gen_count, exec_count, last_failed>>

\* ------------------------------------------------------- _execute_sql_query
\* SQLParser.replace_table_and_column_names: every reference to a table of
\* the mapping is replaced by the mapped expression
replace_table_and_column_names(q, mapping) ==
    {IF t \in DOMAIN mapping THEN mapping[t] ELSE TableRef(t) : t \in q}

Unmapped(q, mapping) == {t \in q : t \notin DOMAIN mapping}

\* line 136: `if not self._state.dfs`
NoDataFrames_never(s) == FALSE

NoDataFrames(s) == dfs[s] = <<>>

\* lines 136-142: the call starts; without datasets it raises ValueError
SqlCall(s, q) ==
    /\ sql_pc[s] \in {"idle", "done"}
    /\ calls < MaxCalls
    /\ calls' = calls + 1
    /\ sql_query' = [sql_query EXCEPT ![s] = q]
    /\ table_mapping' = [table_mapping EXCEPT ![s] = EmptyMapping]
    /\ df_executor' = [df_executor EXCEPT ![s] = 0]
    /\ final_query' = [final_query EXCEPT ![s] = {}]
    /\ registered' = [registered EXCEPT ![s] = <<>>]
    /\ runs' = [runs EXCEPT ![s] = <<>>]
    /\ df_idx' = [df_idx EXCEPT ![s] = 1]
    /\ IF NoDataFrames(s)
       THEN /\ sql_pc' = [sql_pc EXCEPT ![s] = "done"]
            /\ sql_out' = [sql_out EXCEPT ![s] = "ValueError"]
       ELSE /\ sql_pc' = [sql_pc EXCEPT ![s] =
                             IF Len(dfs[s]) >= 1 THEN "for" ELSE "rewrite"]
            /\ sql_out' = [sql_out EXCEPT ![s] = "none"]
    /\ UNCHANGED <<dfs, engine>>
    /\ UNCHANGED <<agentVars, fnVars>>

\* the for loop goes to the next dataset, or ends
NextDf(s) ==
    /\ df_idx' = [df_idx EXCEPT ![s] = df_idx[s] + 1]
    /\ sql_pc' = [sql_pc EXCEPT ![s] =
                     IF df_idx[s] + 1 > Len(dfs[s]) THEN "rewrite" ELSE "for"]

\* lines 145-148: the dataset has a query builder
SqlMapDf(s) ==
    /\ sql_pc[s] = "for"
    /\ dfs[s][df_idx[s]].has_qb
    /\ table_mapping' = [table_mapping EXCEPT ![s] =
          (dfs[s][df_idx[s]].name :> _get_table_expression(s, df_idx[s]))
             @@ table_mapping[s]]
    /\ df_executor' = [df_executor EXCEPT ![s] = df_idx[s]]
    /\ NextDf(s)
    /\ UNCHANGED <<dfs, sql_query, final_query, engine, registered, runs,
                   sql_out, calls>>
    /\ UNCHANGED <<agentVars, fnVars>>

\* lines 149-151: the dataset has none and is registered in the engine
SqlRegisterDf(s) ==
    /\ sql_pc[s] = "for"
    /\ ~dfs[s][df_idx[s]].has_qb
    /\ engine' = (dfs[s][df_idx[s]].name :> <<s, df_idx[s]>>) @@ engine
    /\ registered' = [registered EXCEPT ![s] =
          Append(registered[s],
                 [name |-> dfs[s][df_idx[s]].name, df |-> df_idx[s]])]
    /\ NextDf(s)
    /\ UNCHANGED <<dfs, sql_query, table_mapping, df_executor, final_query,
                   runs, sql_out, calls>>
    /\ UNCHANGED <<agentVars, fnVars>>

\* line 153, the rewriting returns
SqlRewrite(s) ==
    /\ sql_pc[s] = "rewrite"
    /\ final_query' = [final_query EXCEPT ![s] =
          replace_table_and_column_names(sql_query[s], table_mapping[s])]
    /\ sql_pc' = [sql_pc EXCEPT ![s] = "execute"]
    /\ UNCHANGED <<dfs, sql_query, df_idx, table_mapping, df_executor, engine,
                   registered, runs, sql_out, calls>>
    /\ UNCHANGED <<agentVars, fnVars>>

\* line 153, the rewriting rejects a query that references a table which is
\* not in the mapping
SqlRewriteRaises(s) ==
    /\ sql_pc[s] = "rewrite"
    /\ Unmapped(sql_query[s], table_mapping[s]) # {}
    /\ sql_pc' = [sql_pc EXCEPT ![s] = "done"]
    /\ sql_out' = [sql_out EXCEPT ![s] = "MaliciousQuery"]
    /\ UNCHANGED <<dfs, sql_query, df_idx, table_mapping, df_executor,
                   final_query, engine, registered, runs, calls>>
    /\ UNCHANGED <<agentVars, fnVars>>

\* line 155: `if not df_executor`
UseEngine_always(s) == TRUE

UseEngine(s) == df_executor[s] = 0

\* lines 155-156: no dataset had a query builder
SqlRunEngine(s) ==
    /\ sql_pc[s] = "execute"
    /\ UseEngine(s)
    /\ runs' = [runs EXCEPT ![s] =
          Append(runs[s], [executor |-> "engine", df |-> 0,
                           query |-> final_query[s], tables |-> engine])]
    /\ sql_pc' = [sql_pc EXCEPT ![s] = "done"]
    /\ \E r \in {"returned", "raised"} :
          sql_out' = [sql_out EXCEPT ![s] = r]
    /\ UNCHANGED <<dfs, sql_query, df_idx, table_mapping, df_executor,
                   final_query, engine, registered, calls>>
    /\ UNCHANGED <<agentVars, fnVars>>

\* lines 157-158: the last dataset with a query builder runs the query
SqlRunDelegate(s) ==
    /\ sql_pc[s] = "execute"
    /\ ~UseEngine(s)
    /\ runs' = [runs EXCEPT ![s] =
          Append(runs[s], [executor |-> "delegate", df |-> df_executor[s],
                           query |-> final_query[s], tables |-> engine])]
    /\ sql_pc' = [sql_pc EXCEPT ![s] = "done"]
    /\ \E r \in {"returned", "raised"} :
          sql_out' = [sql_out EXCEPT ![s] = r]
    /\ UNCHANGED <<dfs, sql_query, df_idx, table_mapping, df_executor,
                   final_query, engine, registered, calls>>
    /\ UNCHANGED <<agentVars, fnVars>>

\* ------------------------------------------------------------ specification
Init ==
    /\ llm \in BOOLEAN
    /\ max_retries \in 0..MaxRetriesBound
    /\ pc = "idle"
    /\ turn_kind = "none"
    /\ query = "none"
    /\ turns = 0
    /\ memory = <<>>
    /\ mem_at_start = <<>>
    /\ last_code_generated = 0
    /\ last_prompt_used = NoPrompt
    /\ pq_code = 0
    /\ code = 0
    /\ exception = NoExc
    /\ handled = NoExc
    /\ g_attempts = 0
    /\ e_attempts = 0
    /\ requests = 0
    /\ gen_count = 0
    /\ exec_count = 0
    /\ e_regen = 0
    /\ last_failed = [code |-> 0, exc |-> NoExc]
    /\ last_sent = NoPrompt
    /\ returned = 0
    /\ executed = 0
    /\ nexc = 0
    /\ ncode = 0
    /\ outcome = NoOutcome
    /\ dfs = [s \in Sessions |-> <<>>]
    /\ SqlIdle
    /\ FnIdle

Next ==
    \/ \E q \in Queries : chat(q)
    \/ \E q \in Queries : follow_up(q)
    \/ add_message("note")
    \/ GenerateCodeOk
    \/ \E k \in ValidationKinds \cup ConnectivityKinds : GenerateCodeFail(k)
    \/ RegenerateCodeOk
    \/ \E k \in ValidationKinds \cup ConnectivityKinds : RegenerateCodeFail(k)
    \/ ExecuteCodeOk
    \/ \E k \in ExecKinds : ExecuteCodeFail(k)
    \/ ParseOk
    \/ \E k \in ParseKinds : ParseFail(k)
    \/ RegenerateAfterErrorOk
    \/ \E k \in ValidationKinds \cup ConnectivityKinds :
          RegenerateAfterErrorFail(k)

Spec == Init /\ [][Next]_vars

\* the agent is idle in the specification of the SQL router
AgentIdle ==
    /\ llm = TRUE
    /\ max_retries = 0
    /\ pc = "idle"
    /\ turn_kind = "none"
    /\ query = "none"
    /\ turns = 0
    /\ memory = <<>>
    /\ mem_at_start = <<>>
    /\ last_code_generated = 0
    /\ last_prompt_used = NoPrompt
    /\ pq_code = 0
    /\ code = 0
    /\ exception = NoExc
    /\ handled = NoExc
    /\ g_attempts = 0
    /\ e_attempts = 0
    /\ requests = 0
    /\ gen_count = 0
    /\ exec_count = 0
    /\ e_regen = 0
    /\ last_failed = [code |-> 0, exc |-> NoExc]
    /\ last_sent = NoPrompt
    /\ returned = 0
    /\ executed = 0
    /\ nexc = 0
    /\ ncode = 0
    /\ outcome = NoOutcome

InitSql ==
    /\ AgentIdle
    /\ dfs \in [Sessions -> DfLists]
    /\ Len(dfs["s2"]) <= MaxPeerDfs
    /\ SqlIdle
    /\ FnIdle

NextSql ==
    \/ \E s \in Sessions, q \in SUBSET TableNames : SqlCall(s, q)
    \/ \E s \in Sessions : SqlMapDf(s)
    \/ \E s \in Sessions : SqlRegisterDf(s)
    \/ \E s \in Sessions : SqlRewrite(s)
    \/ \E s \in Sessions : SqlRewriteRaises(s)
    \/ \E s \in Sessions : SqlRunEngine(s)
    \/ \E s \in Sessions : SqlRunDelegate(s)

SpecSql == InitSql /\ [][NextSql]_vars

\* ------------------------------------------------------------ properties
InTurn == {"regenerate_code", "execute_code", "parse", "regenerate_after_error"}

Failed(o) == o.type \in {"raised", "error_response"}

RecoverableKinds ==
    {"BadImport", "MaliciousQuery", "InvalidLLMOutputType",
     "CodeExecutionError"}

\* C1: one call of execute_with_retries runs execute_code at most
\* max_retries + 1 times; when all max_retries + 1 attempts have failed the
\* exception of the last attempt is the one raised; with max_retries = 0 the
\* first failure is raised and no regeneration request is sent.
C1_ExecuteRetryBudget ==
    /\ exec_count <= max_retries + 1
    /\ e_attempts > max_retries =>
          /\ pc = "done"
          /\ Failed(outcome)
          /\ outcome.exc = last_failed.exc
          /\ exec_count = max_retries + 1
    /\ (max_retries = 0 /\ e_attempts >= 1) =>
          /\ e_regen = 0
          /\ exec_count = 1
          /\ pc = "done"
          /\ outcome.exc = last_failed.exc

C1_Witness ==
    /\ pc = "done"
    /\ max_retries = 2
    /\ exec_count = 3
    /\ e_attempts = 3
    /\ e_regen = 2
    /\ Failed(outcome)

\* C2: one call of generate_code_with_retries makes at most max_retries + 1
\* generation attempts (generate_code and the regenerations together); with
\* max_retries = 0 a failed generate_code is not followed by a regeneration.
C2_GenerateRetryBudget ==
    /\ gen_count <= max_retries + 1
    /\ max_retries = 0 => gen_count <= 1

\* C3: a turn that ends in a failure of kind BadImport, MaliciousQuery,
\* InvalidLLMOutputType or CodeExecutionError gives an ErrorResponse back and
\* raises nothing.
C3_TerminalFailureIsErrorResponse ==
    (pc = "done" /\ Failed(outcome) /\ outcome.exc.kind \in RecoverableKinds)
       => outcome.type = "error_response"

\* C4: when the execution budget is exhausted and an ErrorResponse is
\* returned, its last_code_executed is the code of the last attempt that was
\* executed.
C4_ErrorResponseHasLastCode ==
    (pc = "done" /\ outcome.type = "error_response"
        /\ e_attempts > max_retries)
       => outcome.code = last_failed.code

\* C5: a turn that has entered the execution loop does not end in failure
\* before the execution budget is exceeded, also when a regeneration inside
\* the loop fails.
C5_RegenerationFailureIsRetried ==
    (pc = "done" /\ Failed(outcome) /\ exec_count >= 1)
       => e_attempts > max_retries

\* C6: after a model call or connector call has failed with a connectivity
\* error neither retry loop goes on to a further attempt: the turn is over
\* and that error is what the caller gets.
C6_ConnectivityErrorNotRetried ==
    /\ (pc = "regenerate_code" => exception.kind \notin ConnectivityKinds)
    /\ (pc = "regenerate_after_error" => handled.kind \notin ConnectivityKinds)

\* C7: when generation begins in a turn started by chat the history holds
\* only the query of the turn; in a turn started by follow_up it holds every
\* message it held before the call, in the same order, and then the query.
C7_ChatClearsFollowUpKeeps ==
    LET before == IF turn_kind = "chat" THEN <<>> ELSE mem_at_start
    IN /\ pc = "generate_code" => memory = before
       /\ pc \in InTurn => memory = Append(before, query)

C7_Witness ==
    /\ pc = "execute_code"
    /\ turn_kind = "follow_up"
    /\ Len(mem_at_start) >= 2
    /\ memory = Append(mem_at_start, query)

\* C8: the correction request sent after a failed execution attempt carries
\* the code that attempt ran and the exception that attempt raised.
C8_Step ==
    pc = "regenerate_after_error" =>
       /\ requests' = requests + 1
       /\ last_sent'.code = last_failed.code
       /\ last_sent'.trace = last_failed.exc

C8_CorrectionUsesFailedAttempt == [][C8_Step]_vars

C8_Witness ==
    /\ pc = "execute_code"
    /\ e_regen = 2
    /\ last_sent.code = last_failed.code
    /\ last_sent.code # pq_code
    /\ last_sent.trace = last_failed.exc
    /\ last_sent.trace.id >= 2

\* the error argument of the _regenerate_code_after_error call about to be made
ErrorArgument == IF pc = "regenerate_code" THEN exception ELSE handled

\* C9: every call of _regenerate_code_after_error sends exactly one request;
\* it is the output-type correction request if and only if the error given is
\* an InvalidLLMOutputType, and the generic correction request otherwise.
C9_Step ==
    pc \in {"regenerate_code", "regenerate_after_error"} =>
       /\ requests' = requests + 1
       /\ IF ErrorArgument.kind = "InvalidLLMOutputType"
          THEN last_sent'.type = "correct_output_type"
          ELSE last_sent'.type = "correct_error"

C9_RequestKindFollowsError == [][C9_Step]_vars

C9_Witness ==
    /\ pc = "execute_code"
    /\ last_failed.exc.kind = "InvalidLLMOutputType"
    /\ last_sent.type = "correct_output_type"
    /\ requests = 2

\* the datasets of session s all registered, in order, under their names
AllRegistered(s) ==
    [i \in 1..Len(dfs[s]) |-> [name |-> dfs[s][i].name, df |-> i]]

AnyQueryBuilder(s) == \E i \in 1..Len(dfs[s]) : dfs[s][i].has_qb

\* C10: a call on a non-empty dataset list whose query was rewritten runs the
\* rewritten query on exactly one executor: the executor of one of the
\* datasets that have a query builder if there is such a dataset, and the
\* in-process engine only if there is none, every dataset of the session
\* having been registered in the engine under its name before the query runs.
C10_OneExecutor ==
    \A s \in Sessions :
       /\ Len(runs[s]) <= 1
       /\ sql_pc[s] \in {"for", "rewrite", "execute"} => runs[s] = <<>>
       /\ (sql_pc[s] = "done" /\ sql_out[s] \in {"returned", "raised"}) =>
             /\ dfs[s] # <<>>
             /\ Len(runs[s]) = 1
             /\ runs[s][1].query = final_query[s]
             /\ final_query[s] =
                   replace_table_and_column_names(sql_query[s],
                                                  table_mapping[s])
             /\ IF AnyQueryBuilder(s)
                THEN /\ runs[s][1].executor = "delegate"
                     /\ runs[s][1].df \in 1..Len(dfs[s])
                     /\ dfs[s][runs[s][1].df].has_qb
                ELSE /\ runs[s][1].executor = "engine"
                     /\ registered[s] = AllRegistered(s)
                     /\ \A i \in 1..Len(dfs[s]) :
                           dfs[s][i].name \in DOMAIN runs[s][1].tables

C10_Witness ==
    /\ sql_pc["s1"] = "done"
    /\ sql_out["s1"] = "returned"
    /\ Len(dfs["s1"]) = 2
    /\ ~AnyQueryBuilder("s1")
    /\ runs["s1"][1].executor = "engine"
    /\ sql_query["s1"] # {}

\* a step that leaves or enters a call of a retry loop, where the local
\* attempts of the call starts at 0
CallBoundary == pc' \in {"generate_code", "execute_code", "done"}

\* C11: in both retry loops attempts starts at 0, changes only by +1 and stays
\* within 0..max_retries + 1; it reaches max_retries + 1 only in the step that
\* raises the terminal failure, and the turn is over then.
C11_Step ==
    /\ g_attempts' \in 0..(max_retries + 1)
    /\ e_attempts' \in 0..(max_retries + 1)
    /\ g_attempts' # g_attempts =>
          \/ g_attempts' = g_attempts + 1
          \/ g_attempts' = 0 /\ CallBoundary
    /\ e_attempts' # e_attempts =>
          \/ e_attempts' = e_attempts + 1
          \/ e_attempts' = 0 /\ CallBoundary
    /\ (g_attempts' = max_retries + 1 \/ e_attempts' = max_retries + 1) =>
          /\ pc' = "done"
          /\ Failed(outcome')
    /\ (g_attempts = max_retries + 1 \/ e_attempts = max_retries + 1) =>
          /\ requests' <= requests
          /\ exec_count' <= exec_count

C11_AttemptsBounded ==
    /\ g_attempts = 0
    /\ e_attempts = 0
    /\ [][C11_Step]_vars

C11_Witness ==
    /\ pc = "done"
    /\ max_retries = 2
    /\ g_attempts = 3
    /\ gen_count = 4
    /\ Failed(outcome)

\* C13: an execution attempt starts only after a generation or regeneration
\* has returned code, it runs the code the most recent successful one
\* returned, and that code is newer than every code executed before it.
C13_Step ==
    exec_count' = exec_count + 1 =>
       /\ returned # 0
       /\ code = returned
       /\ executed' = returned
       /\ executed < returned

C13_ExecutesLatestCode == [][C13_Step]_vars

C13_Witness ==
    /\ pc = "parse"
    /\ exec_count = 3
    /\ executed = returned
    /\ executed > pq_code
    /\ pq_code > 1

\* C18: when a turn is over, last_prompt_used is the last request that was
\* sent to the model in the turn, correction requests included.
C18_LastPromptIsLastSent ==
    (pc = "done" /\ requests >= 1) => last_prompt_used = last_sent

\* C20: every regeneration request of generate_code_with_retries carries the
\* diagnostic of the most recent failed generation attempt, the attempt whose
\* exception also picks the kind of the request.
C20_Step ==
    pc = "regenerate_code" =>
       /\ last_sent'.trace = exception
       /\ last_sent'.type = RegenPrompt(0, exception, exception).type

C20_DiagnosticOfLatestFailure == [][C20_Step]_vars

\* the names of the datasets of session s that have a query builder
QueryBuilderNames(s) ==
    {dfs[s][i].name : i \in {j \in 1..Len(dfs[s]) : dfs[s][j].has_qb}}

\* C17: when the query of a call is rewritten, table_mapping has exactly one
\* key per dataset with a query builder, every key is the name of a dataset
\* of the session, and each such dataset finds its own table expression under
\* its name.
C17_MappingOnePerDataset ==
    \A s \in Sessions :
       sql_pc[s] \in {"rewrite", "execute"} =>
          /\ DOMAIN table_mapping[s] = QueryBuilderNames(s)
          /\ Cardinality(DOMAIN table_mapping[s]) =
                Cardinality({j \in 1..Len(dfs[s]) : dfs[s][j].has_qb})
          /\ \A i \in 1..Len(dfs[s]) :
                dfs[s][i].has_qb =>
                   table_mapping[s][dfs[s][i].name] = _get_table_expression(s, i)

\* C19: a call of a session without datasets raises ValueError at once: the
\* session registers nothing in the engine and runs no query.
C19_NoDatasetsRaisesFirst ==
    \A s \in Sessions :
       dfs[s] = <<>> =>
          /\ sql_pc[s] \in {"idle", "done"}
          /\ sql_pc[s] = "done" => sql_out[s] = "ValueError"
          /\ registered[s] = <<>>
          /\ runs[s] = <<>>
          /\ \A n \in DOMAIN engine : engine[n][1] # s

C19_Witness ==
    \E s \in Sessions :
       /\ dfs[s] = <<>>
       /\ sql_pc[s] = "done"
       /\ sql_out[s] = "ValueError"
       /\ calls >= 1

\* ------------------------------------------- sessions on the shared engine
\* two agents of one process, each with its own datasets
InitShared ==
    /\ AgentIdle
    /\ dfs \in [Sessions -> DfLists]
    /\ \A s \in Sessions : Len(dfs[s]) <= MaxSharedDfs
    /\ SqlIdle
    /\ FnIdle

SpecShared == InitShared /\ [][NextSql]_vars

\* the names of the datasets of session s
SessionNames(s) == {dfs[s][i].name : i \in 1..Len(dfs[s])}

\* C14: a query a session runs on the in-process engine is evaluated over the
\* session's own datasets: every table of the query that is a dataset of the
\* session is, when the query runs, the table that session registered.
C14_OwnDataset ==
    \A s \in Sessions :
       \A k \in 1..Len(runs[s]) :
          runs[s][k].executor = "engine" =>
             \A t \in sql_query[s] \cap SessionNames(s) :
                t \in DOMAIN runs[s][k].tables =>
                   runs[s][k].tables[t][1] = s

\* ------------------------------------------- construction and validation
\* SQLConnectionConfig.__eq__
SQLConnectionConfig_eq_any_password(a, b) ==
    /\ a.host = b.host
    /\ a.port = b.port
    /\ a.database = b.database
    /\ a.user = b.user

SQLConnectionConfig_eq(a, b) ==
    /\ a.host = b.host
    /\ a.port = b.port
    /\ a.database = b.database
    /\ a.user = b.user
    /\ a.password = b.password

\* Source.is_compatible_source
is_compatible_source(source1, source2) ==
    IF source1.type \in LOCAL_SOURCE_TYPES
          /\ source2.type \in LOCAL_SOURCE_TYPES
    THEN TRUE
    ELSE IF source1.type \in REMOTE_SOURCE_TYPES
              /\ source2.type \in REMOTE_SOURCE_TYPES
         THEN SQLConnectionConfig_eq(source1.connection, source2.connection)
         ELSE FALSE

\* BaseQueryBuilder.check_compatible_sources: the sources are mutually
\* compatible
check_compatible_sources(srcs) ==
    \A i \in 1..Len(srcs), j \in 1..Len(srcs) :
        is_compatible_source(srcs[i], srcs[j])

\* Agent.__init__ on a list of datasets: the sources are checked before
\* self._state is set
AgentInit ==
    /\ fn = "Agent"
    /\ fn_pc = "start"
    /\ fn_pc' = "done"
    /\ agent_out' =
          IF check_compatible_sources(sources)
          THEN [result |-> "constructed", state_initialized |-> TRUE]
          ELSE [result |-> "ValueError", state_initialized |-> FALSE]
    /\ UNCHANGED <<fn, sources, rw_in, rw_out, imp_in, imp_out>>
    /\ UNCHANGED <<req_in, req_out>>
    /\ UNCHANGED <<agentVars, sqlVars>>

\* CodeCleaner._replace_table_names on the tables a query refers to, in the
\* order they appear: each is replaced by its expression in the mapping, and a
\* table that is no key of the mapping raises MaliciousQueryError
RECURSIVE ReplaceTables(_, _)
ReplaceTables(q, mapping) ==
    IF q = <<>> THEN <<>>
    ELSE <<mapping[Head(q)]>> \o ReplaceTables(Tail(q), mapping)

Referenced(q) == {q[i] : i \in 1..Len(q)}

_replace_table_names_passes(q, mapping) ==
    [raised |-> FALSE,
     query |-> [i \in 1..Len(q) |->
                   IF q[i] \in DOMAIN mapping THEN mapping[q[i]] ELSE q[i]]]

_replace_table_names(q, mapping) ==
    IF Referenced(q) \subseteq DOMAIN mapping
    THEN [raised |-> FALSE, query |-> ReplaceTables(q, mapping)]
    ELSE [raised |-> TRUE, query |-> <<>>]

ReplaceTableNames ==
    /\ fn = "_replace_table_names"
    /\ fn_pc = "start"
    /\ fn_pc' = "done"
    /\ rw_out' = _replace_table_names(rw_in.query, rw_in.mapping)
    /\ UNCHANGED <<fn, sources, agent_out, rw_in, imp_in, imp_out>>
    /\ UNCHANGED <<req_in, req_out>>
    /\ UNCHANGED <<agentVars, sqlVars>>

\* CodeCleaner._check_imports on an import node: the first module that is not
\* allow-listed raises BadImportError naming it; otherwise the node is kept
FirstBad(node, allow) ==
    LET bad == {i \in 1..Len(node) : node[i] \notin allow}
    IN  IF bad = {} THEN 0
        ELSE CHOOSE i \in bad : \A j \in bad : i <= j

_check_imports_strips(node, allow) ==
    [raised |-> "none", node |-> SelectSeq(node, LAMBDA m : m \in allow)]

_check_imports(node, allow) ==
    IF FirstBad(node, allow) = 0
    THEN [raised |-> "none", node |-> node]
    ELSE [raised |-> node[FirstBad(node, allow)], node |-> <<>>]

CheckImports ==
    /\ fn = "_check_imports"
    /\ fn_pc = "start"
    /\ fn_pc' = "done"
    /\ imp_out' = _check_imports(imp_in.node, imp_in.allow)
    /\ UNCHANGED <<fn, sources, agent_out, rw_in, rw_out, imp_in>>
    /\ UNCHANGED <<req_in, req_out>>
    /\ UNCHANGED <<agentVars, sqlVars>>

InitFn ==
    /\ AgentIdle
    /\ dfs = [s \in Sessions |-> <<>>]
    /\ SqlIdle
    /\ fn \in {"Agent", "_replace_table_names", "_check_imports",
               "make_request"}
    /\ fn_pc = "start"
    /\ sources \in IF fn = "Agent" THEN SourceLists ELSE {<<>>}
    /\ rw_in \in IF fn = "_replace_table_names"
                 THEN [query : RwQueries, mapping : RwMappings]
                 ELSE {[query |-> <<>>, mapping |-> [n \in {} |-> ""]]}
    /\ imp_in \in IF fn = "_check_imports"
                  THEN [allow : SUBSET Modules, node : ImportNodes]
                  ELSE {[allow |-> {}, node |-> <<>>]}
    /\ req_in \in IF fn = "make_request"
                  THEN Responses \cup {TransportError}
                  ELSE {NoRequest}
    /\ FnIdleExcept(fn)

\* Session.make_request on what requests.request does: a RequestException,
\* and a body that is not JSON (response.json raises
\* requests.exceptions.JSONDecodeError, a RequestException), are caught at
\* line 91; an error status raises only if the body has "message" or
\* "detail"; everything else returns the body
make_request(r) ==
    IF r.transport = "RequestException" \/ ~r.decodable
    THEN [kind |-> "PandasAIApiCallError", value |-> "Request failed"]
    ELSE IF r.status \notin OkStatuses /\ "message" \in r.keys
    THEN [kind |-> "PandasAIApiCallError", value |-> "message"]
    ELSE IF r.status \notin OkStatuses /\ "detail" \in r.keys
    THEN [kind |-> "PandasAIApiCallError", value |-> "detail"]
    ELSE [kind |-> "returned", value |-> "body"]

MakeRequest ==
    /\ fn = "make_request"
    /\ fn_pc = "start"
    /\ fn_pc' = "done"
    /\ req_out' = make_request(req_in)
    /\ UNCHANGED <<fn, sources, agent_out, rw_in, rw_out, imp_in, imp_out>>
    /\ UNCHANGED req_in
    /\ UNCHANGED <<agentVars, sqlVars>>

NextFn ==
    \/ AgentInit
    \/ ReplaceTableNames
    \/ CheckImports
    \/ MakeRequest

SpecFn == InitFn /\ [][NextFn]_vars

IsLocal(src) == src.type \in LOCAL_SOURCE_TYPES
IsRemote(src) == src.type \in REMOTE_SOURCE_TYPES

\* C12: an agent is constructed from a list of datasets exactly when all
\* sources are local, or all are remote with the same connection in every
\* field; a local and a remote source are never accepted together, in either
\* order; a rejected construction raises before the agent's state is set
C12_CompatibleSources ==
    (fn = "Agent" /\ fn_pc = "done") =>
        /\ agent_out.result \in {"constructed", "ValueError"}
        /\ agent_out.result = "constructed" <=>
              \/ \A i \in 1..Len(sources) : IsLocal(sources[i])
              \/ /\ \A i \in 1..Len(sources) : IsRemote(sources[i])
                 /\ \A i \in 1..Len(sources) :
                       sources[i].connection = sources[1].connection
        /\ (\E i, j \in 1..Len(sources) :
               IsLocal(sources[i]) /\ IsRemote(sources[j]))
              => agent_out.result = "ValueError"
        /\ agent_out.state_initialized <=> agent_out.result = "constructed"

C12_Witness ==
    /\ fn = "Agent"
    /\ fn_pc = "done"
    /\ Len(sources) = 2
    /\ IsRemote(sources[1])
    /\ IsRemote(sources[2])
    /\ sources[1].connection = [sources[2].connection EXCEPT !.password = "p2"]
    /\ sources[1].connection # sources[2].connection
    /\ agent_out = [result |-> "ValueError", state_initialized |-> FALSE]

\* C15: rewriting the table names of a query raises MaliciousQueryError
\* exactly when the query refers to a table that is no key of the mapping;
\* otherwise every reference is replaced by its mapped expression, an identity
\* mapping returns the query unchanged, and every table left in the query is
\* an expression of the mapping
C15_RewriteOrMalicious ==
    (fn = "_replace_table_names" /\ fn_pc = "done") =>
        LET q == rw_in.query
            m == rw_in.mapping
        IN  /\ rw_out.raised <=> \E i \in 1..Len(q) : q[i] \notin DOMAIN m
            /\ ~rw_out.raised =>
                  /\ Len(rw_out.query) = Len(q)
                  /\ \A i \in 1..Len(q) : rw_out.query[i] = m[q[i]]
                  /\ (\A i \in 1..Len(q) : m[q[i]] = q[i]) => rw_out.query = q
                  /\ \A i \in 1..Len(q) :
                        rw_out.query[i] \in {m[n] : n \in DOMAIN m}

C15_Witness ==
    /\ fn = "_replace_table_names"
    /\ fn_pc = "done"
    /\ rw_in.query = <<"my_table", "sales">>
    /\ rw_in.mapping = [n \in RwTables |->
                           IF n = "my_table" THEN "db.my_table" ELSE n]
    /\ rw_out = [raised |-> FALSE, query |-> <<"db.my_table", "sales">>]

\* C16: the import check accepts an import node, keeping it as it is, exactly
\* when every module it imports is allow-listed; otherwise it raises
\* BadImportError naming a module of the node that is not allow-listed, and it
\* never drops an import without raising
C16_ImportsAllowedOrBadImport ==
    (fn = "_check_imports" /\ fn_pc = "done") =>
        LET node == imp_in.node
            allow == imp_in.allow
        IN  /\ imp_out.raised = "none" <=>
                  \A i \in 1..Len(node) : node[i] \in allow
            /\ imp_out.raised = "none" => imp_out.node = node
            /\ imp_out.raised # "none" =>
                  /\ imp_out.raised \in {node[i] : i \in 1..Len(node)}
                  /\ imp_out.raised \notin allow

C16_Witness ==
    /\ fn = "_check_imports"
    /\ fn_pc = "done"
    /\ imp_in = [allow |-> {"pandas"}, node |-> <<"pandas", "numpy">>]
    /\ imp_out.raised = "numpy"

\* C21: in a turn the query is appended to the history once, when generation
\* begins; no retry of generation or of execution adds, removes or reorders
\* an entry, so the turn ends with the history it began with and the query
C21_Step ==
    /\ pc = "generate_code" => memory' = Append(memory, query)
    /\ pc \in InTurn => memory' = memory
    /\ pc' = "generate_code" => pc \in {"idle", "done"}
    /\ (pc \in InTurn \cup {"generate_code"} /\ pc' = "done") =>
          memory' = Append(IF turn_kind = "chat" THEN <<>> ELSE mem_at_start,
                           query)

C21_QueryAppendedOnce == [][C21_Step]_vars

C21_Witness ==
    /\ pc = "done"
    /\ turn_kind = "follow_up"
    /\ gen_count >= 2
    /\ e_regen >= 1
    /\ Len(mem_at_start) >= 1
    /\ memory = Append(mem_at_start, query)

\* ------------------------------------------------------------ termination
\* the steps of a running turn: each is a call of the code generator, of the
\* executor or of the response parser, which returns or raises
TurnStep ==
    \/ GenerateCodeOk
    \/ \E k \in ValidationKinds \cup ConnectivityKinds : GenerateCodeFail(k)
    \/ RegenerateCodeOk
    \/ \E k \in ValidationKinds \cup ConnectivityKinds : RegenerateCodeFail(k)
    \/ ExecuteCodeOk
    \/ \E k \in ExecKinds : ExecuteCodeFail(k)
    \/ ParseOk
    \/ \E k \in ParseKinds : ParseFail(k)
    \/ RegenerateAfterErrorOk
    \/ \E k \in ValidationKinds \cup ConnectivityKinds :
          RegenerateAfterErrorFail(k)

\* the calls of the user, at most MaxLiveTurns turns
NextLive ==
    \/ \E q \in Queries : turns < MaxLiveTurns /\ chat(q)
    \/ \E q \in Queries : turns < MaxLiveTurns /\ follow_up(q)
    \/ add_message("note")
    \/ TurnStep

\* every call made by a running turn returns or raises in finite time
SpecLive == Init /\ [][NextLive]_vars /\ WF_vars(TurnStep)

Running == InTurn \cup {"generate_code"}

\* the number of steps the running turn can still take, at most
Remaining ==
    LET R == max_retries + 1
    IN  CASE pc = "generate_code" -> 4 * R + 4
          [] pc = "regenerate_code" -> 3 * R + 3 + (R - g_attempts)
          [] pc = "execute_code" -> 3 * (R - e_attempts) + 2
          [] pc = "parse" -> 3 * (R - e_attempts) + 1
          [] pc = "regenerate_after_error" -> 3 * (R - e_attempts) + 3
          [] OTHER -> 0

\* C22: every turn started by chat or follow_up ends, for every max_retries,
\* with a parsed result, an error response or a raised exception; every step
\* of a running turn ends the turn or takes it strictly closer to its end, so
\* neither retry loop cycles
C22_Step ==
    pc \in Running =>
        /\ Remaining >= 0
        /\ \/ /\ pc' = "done"
              /\ outcome'.type \in {"result", "error_response", "raised"}
           \/ /\ pc' \in Running
              /\ Remaining' >= 0
              /\ Remaining' < Remaining

C22_TurnTerminates ==
    /\ [][C22_Step]_vars
    /\ pc \in Running ~>
          (pc = "done"
              /\ outcome.type \in {"result", "error_response", "raised"})

C22_Witness ==
    /\ pc = "done"
    /\ max_retries = MaxRetriesBound
    /\ g_attempts = 0
    /\ gen_count = max_retries + 2
    /\ e_attempts = max_retries + 1
    /\ exec_count = max_retries + 1
    /\ outcome.type = "error_response"

\* C23: make_request returns a body only for a response with status 200 or
\* 201; for a response with any other status it raises PandasAIApiCallError,
\* whatever keys the body has
C23_ErrorStatusRaises ==
    (fn = "make_request" /\ fn_pc = "done") =>
        /\ req_out.kind = "returned" =>
              req_in.transport = "response" /\ req_in.status \in {200, 201}
        /\ (req_in.transport = "response" /\ req_in.status \notin {200, 201})
              => req_out.kind = "PandasAIApiCallError"

====
